---------------------------- MODULE Spec2Model ----------------------------
(***************************************************************************)
(* The area-weighted global average of "Assignment02 -- Introducing CESM". *)
(*                                                                         *)
(* The notebook is a Python kernel whose cells bind names.  The cells that *)
(* compute are                                                             *)
(*     coslat = cos(deg2rad(atm_control.lat))                              *)
(*     weight_factor = coslat / coslat.mean(dim='lat')                     *)
(*     weight_factor2 = atm_control.gw / atm_control.gw.mean(dim='lat')    *)
(*     print (atm_control.FLNT * weight_factor).mean(dim=(...))            *)
(*     print (atm_control.FLNT * weight_factor2).mean(dim=(...))           *)
(* The state is the kernel namespace; one action per cell.                 *)
(*                                                                         *)
(* Numbers.  A float64 is modelled by an exact rational [n, d] in lowest   *)
(* terms (d > 0), or by one of the IEEE specials NaN = [0, 0],             *)
(* +Inf = [1, 0], -Inf = [-1, 0].  Rounding of the last bits is not        *)
(* modelled; division by zero and NaN propagation are.  Cosines come from  *)
(* a table with resolution 1/CosScale.                                     *)
(***************************************************************************)
EXTENDS Integers, Sequences, FiniteSets, TLC

(***************************************************************************)
(* Bounds of the model.                                                    *)
(***************************************************************************)
MaxLat == 2
MaxLon == 2
MaxTime == 2
MaxGrid == 2

(***************************************************************************)
(* float64 arithmetic (numpy), as used by "/", "*" and mean.               *)
(***************************************************************************)
Abs(x) == IF x < 0 THEN -x ELSE x

Sgn(x) == IF x < 0 THEN -1 ELSE IF x > 0 THEN 1 ELSE 0

RECURSIVE GCD(_, _)
GCD(a, b) == IF b = 0 THEN a ELSE GCD(b, a % b)

Rat(n, d) ==
  IF d = 0 THEN [n |-> Sgn(n), d |-> 0]
  ELSE LET g == GCD(Abs(n), Abs(d))
           s == Sgn(d)
       IN  [n |-> s * (n \div g), d |-> s * (d \div g)]

Num(i) == [n |-> i, d |-> 1]
NaN == [n |-> 0, d |-> 0]
Inf(s) == [n |-> s, d |-> 0]

IsNaN(x) == x.d = 0 /\ x.n = 0
IsInf(x) == x.d = 0 /\ x.n # 0
IsFin(x) == x.d > 0
IsZero(x) == x.d > 0 /\ x.n = 0

\* x + y; inf + (-inf) is NaN.
NAdd(x, y) ==
  IF IsNaN(x) \/ IsNaN(y) THEN NaN
  ELSE IF IsInf(x) /\ IsInf(y) THEN (IF x.n = y.n THEN x ELSE NaN)
  ELSE IF IsInf(x) THEN x
  ELSE IF IsInf(y) THEN y
  ELSE LET g == GCD(x.d, y.d)
       IN  Rat(x.n * (y.d \div g) + y.n * (x.d \div g), x.d * (y.d \div g))

\* x * y; 0 * inf is NaN.
NMul(x, y) ==
  IF IsNaN(x) \/ IsNaN(y) THEN NaN
  ELSE IF IsInf(x) \/ IsInf(y)
       THEN (IF IsZero(x) \/ IsZero(y) THEN NaN ELSE Inf(Sgn(x.n) * Sgn(y.n)))
  ELSE LET g1 == GCD(Abs(x.n), y.d)
           g2 == GCD(Abs(y.n), x.d)
       IN  Rat((x.n \div g1) * (y.n \div g2), (x.d \div g2) * (y.d \div g1))

\* x / y as numpy divides float64: x/0 is +-inf, 0/0 and inf/inf are NaN;
\* no exception is raised.
NDiv(x, y) ==
  IF IsNaN(x) \/ IsNaN(y) THEN NaN
  ELSE IF IsInf(y) THEN (IF IsInf(x) THEN NaN ELSE Num(0))
  ELSE IF IsZero(y) THEN (IF IsZero(x) THEN NaN ELSE Inf(Sgn(x.n)))
  ELSE IF IsInf(x) THEN Inf(Sgn(x.n) * Sgn(y.n))
  ELSE NMul(x, Rat(y.d * Sgn(y.n), Abs(y.n)))

\* The sum of s[lo..hi], by halves (as numpy's pairwise summation).
RECURSIVE SumRange(_, _, _)
SumRange(s, lo, hi) ==
  IF lo > hi THEN Num(0)
  ELSE IF lo = hi THEN s[lo]
  ELSE LET mid == (lo + hi) \div 2
       IN  NAdd(SumRange(s, lo, mid), SumRange(s, mid + 1, hi))

SumSeq(s) == SumRange(s, 1, Len(s))

NotNaN(x) == ~IsNaN(x)

\* Mutants of the mean: the divisor one too large, and an empty selection
\* averaging to zero.
NanMeanBiased(s) ==
  LET good == SelectSeq(s, NotNaN)
  IN  IF good = <<>> THEN NaN ELSE NDiv(SumSeq(good), Num(Len(good) + 1))

NanMeanZero(s) ==
  LET good == SelectSeq(s, NotNaN)
  IN  IF good = <<>> THEN Num(0) ELSE NDiv(SumSeq(good), Num(Len(good)))

\* The mean of a list of cells as xarray reduces floats (skipna): NaN cells
\* are left out; no cell left, or no cell at all, gives NaN.
NanMean(s) ==
  LET good == SelectSeq(s, NotNaN)
  IN  IF good = <<>> THEN NaN ELSE NDiv(SumSeq(good), Num(Len(good)))

(***************************************************************************)
(* deg2rad and cos (xarray.ufuncs, elementwise numpy).  An angle in        *)
(* radians is kept as a rational multiple of pi, so deg2rad(x) = x/180.    *)
(* cos is tabulated to 1/CosScale for the angles the grids use (even       *)
(* degrees and 45).  float64 has no exact pi/2: cos(deg2rad(90.)) is       *)
(* 6.1e-17, not 0, so the table keeps the pole one unit above zero instead *)
(* of rounding it to zero; cos(deg2rad(180.)) is exactly -1.0.             *)
(***************************************************************************)
CosScale == 100

CosEven ==
  << 100, 100, 100, 99, 99, 98, 98, 97, 96, 95, 94, 93, 91, 90, 88,
     87, 85, 83, 81, 79, 77, 74, 72, 69, 67, 64, 62, 59, 56, 53,
     50, 47, 44, 41, 37, 34, 31, 28, 24, 21, 17, 14, 10, 7, 3 >>

\* Mutant of the table: the exact cosine of 90 degrees, which float64 never
\* returns.
CosQuadrantExact(d) ==
  IF d = 90 THEN 0 ELSE IF d = 45 THEN 71 ELSE CosEven[(d \div 2) + 1]

\* cos of d degrees, 0 <= d <= 90, in units of 1/CosScale.
CosQuadrant(d) ==
  IF d = 90 THEN 1 ELSE IF d = 45 THEN 71 ELSE CosEven[(d \div 2) + 1]

\* cos of an angle of m whole degrees.  cos is even, and float64 gives
\* cos(deg2rad(270.)) = -1.8e-16.
CosDegrees(m) ==
  LET a == Abs(m) % 360
      f == IF a > 180 THEN 360 - a ELSE a
  IN  IF a = 270 THEN Rat(-1, CosScale)
      ELSE IF f <= 90 THEN Rat(CosQuadrant(f), CosScale)
      ELSE Rat(-CosQuadrant(180 - f), CosScale)

\* Mutant of the conversion: 360 degrees taken for pi radians.
deg2radFullTurn(x) == NDiv(x, Num(360))

deg2rad(x) == NDiv(x, Num(180))

cos(r) ==
  IF ~IsFin(r) THEN NaN ELSE CosDegrees((r.n * 180) \div r.d)

(***************************************************************************)
(* xarray.DataArray: named dimensions dims, their lengths size, and one    *)
(* value per index tuple (one index per dimension, in the order of dims).  *)
(***************************************************************************)
RECURSIVE IdxSet(_)
IdxSet(size) ==
  IF size = <<>> THEN {<<>>}
  ELSE {<<i>> \o t : i \in 1..Head(size), t \in IdxSet(Tail(size))}

Scalar(x) == [dims |-> <<>>, size |-> <<>>, val |-> [idx \in {<<>>} |-> x]]

DimSet(a) == {a.dims[p] : p \in 1..Len(a.dims)}

Pos(dims, name) == CHOOSE p \in 1..Len(dims) : dims[p] = name

\* The ufuncs cos and deg2rad applied to a DataArray: elementwise, the
\* dimensions kept.
ufunc_deg2rad(a) ==
  [a EXCEPT !.val = [idx \in DOMAIN a.val |-> deg2rad(a.val[idx])]]

ufunc_cos(a) == [a EXCEPT !.val = [idx \in DOMAIN a.val |-> cos(a.val[idx])]]

\* Binary arithmetic ("mul" or "div") with broadcasting by dimension name:
\* the result has the dimensions of a, then those of b that a lacks.
Arith(op, x, y) == IF op = "mul" THEN NMul(x, y) ELSE NDiv(x, y)

Broadcast(a, b, op) ==
  LET IsNew(nm) == nm \notin DimSet(a)
      dims == a.dims \o SelectSeq(b.dims, IsNew)
      size == [p \in 1..Len(dims) |->
                 IF p <= Len(a.dims) THEN a.size[p]
                 ELSE b.size[Pos(b.dims, dims[p])]]
      inA == [p \in 1..Len(a.dims) |-> Pos(dims, a.dims[p])]
      inB == [p \in 1..Len(b.dims) |-> Pos(dims, b.dims[p])]
  IN  [dims |-> dims, size |-> size,
       val |-> [idx \in IdxSet(size) |->
                  Arith(op, a.val[[p \in 1..Len(a.dims) |-> idx[inA[p]]]],
                            b.val[[p \in 1..Len(b.dims) |-> idx[inB[p]]]])]]

Mul(a, b) == Broadcast(a, b, "mul")

Div(a, b) == Broadcast(a, b, "div")

RECURSIVE Prod(_)
Prod(s) == IF s = <<>> THEN 1 ELSE Head(s) * Prod(Tail(s))

\* The cells of a that reduce into the cell `keep` of the result: the
\* reduced dimensions D run over their whole range (the c-th cell in
\* row-major order), the others are fixed by keep.
Cells(a, D, keep) ==
  LET Red(nm) == nm \in D
      Kept(nm) == nm \notin D
      rdims == SelectSeq(a.dims, Red)
      kdims == SelectSeq(a.dims, Kept)
      n == Len(a.dims)
      rsize == [q \in 1..Len(rdims) |-> a.size[Pos(a.dims, rdims[q])]]
      stride == [q \in 1..Len(rdims) |-> Prod(SubSeq(rsize, q + 1, Len(rdims)))]
      \* where the dimension p of a stands among the reduced or the kept ones
      rank == [p \in 1..n |->
                 IF a.dims[p] \in D THEN Pos(rdims, a.dims[p])
                 ELSE Pos(kdims, a.dims[p])]
      At(c, p) ==
        IF a.dims[p] \in D
        THEN ((c \div stride[rank[p]]) % rsize[rank[p]]) + 1
        ELSE keep[rank[p]]
  IN  [c \in 1..Prod(rsize) |-> a.val[[p \in 1..n |-> At(c - 1, p)]]]

\* Mutant of the reduction: the mean over every dimension (dim left out).
MeanOverAll(a, D) ==
  [dims |-> <<>>, size |-> <<>>,
   val |-> [k \in {<<>>} |-> NanMean(Cells(a, DimSet(a), <<>>))]]

\* a.mean(dim=D): the dimensions in D are removed, the others keep their
\* order and length.
Mean(a, D) ==
  LET Kept(nm) == nm \notin D
      dims == SelectSeq(a.dims, Kept)
      size == [p \in 1..Len(dims) |-> a.size[Pos(a.dims, dims[p])]]
  IN  [dims |-> dims, size |-> size,
       val |-> [k \in IdxSet(size) |-> NanMean(Cells(a, D, k))]]

\* a.mean(dim=D) raises ValueError when D names a dimension a does not have.
MeanRaises(a, D) == ~(D \subseteq DimSet(a))

(***************************************************************************)
(* The file som_1850_f19.cam.h0.clim.nc on the data server, which          *)
(* xr.open_dataset reads: a latitude coordinate in degrees, the per-row    *)
(* area weight gw, the field FLNT(time, lat, lon) and the air temperature  *)
(* T(time, lev, lat, lon).  The file is not part of the notebook, so its   *)
(* content is an input: any grid of at most MaxLat rows, and the two grids *)
(* the specification names.  180 stands for a latitude outside [-90, 90],  *)
(* which no cell checks.  A field may hold missing values (NaN).           *)
(***************************************************************************)
LatValues == {-90, 0, 45, 180}

RECURSIVE SeqsUpTo(_, _)
SeqsUpTo(S, n) ==
  IF n = 0 THEN {<<>>}
  ELSE LET shorter == SeqsUpTo(S, n - 1)
       IN  shorter \cup {Append(q, x) : q \in {r \in shorter : Len(r) = n - 1}, x \in S}

FiveGrid == <<-90, -45, 0, 45, 90>>

TwoDegGrid == [i \in 1..91 |-> 2 * i - 92]

\* A grid whose rows are not equally spaced.
UnevenGrid == <<-90, -60, 0, 20, 90>>

\* The fields: spatially uniform, proportional to cos(latitude), a different
\* value in every cell, the same with the value of the first row and column
\* of the first time step missing, and every value missing.
CoarseFields ==
  {[kind |-> "const", par |-> -1], [kind |-> "const", par |-> 2],
   [kind |-> "coslat", par |-> 1], [kind |-> "coslat", par |-> 3],
   [kind |-> "coded", par |-> 1], [kind |-> "hole", par |-> 1],
   [kind |-> "nan", par |-> 1]}

NamedFields ==
  {[kind |-> "const", par |-> 1], [kind |-> "coslat", par |-> 1]}

GwKinds == {"uniform", "ramp"}

\* The value of a field at time t, level l, row i, column j.
FieldValue(f, t, l, i, j) ==
  CASE f.field.kind = "const"  -> Num(f.field.par)
    [] f.field.kind = "coslat" ->
         NMul(Num(f.field.par), CosDegrees(f.lat[i]))
    [] f.field.kind = "coded"  ->
         Num(f.field.par * (1000 * l + 100 * t + 10 * i + j))
    [] f.field.kind = "hole"   ->
         IF t = 1 /\ i = 1 /\ j = 1 THEN NaN
         ELSE Num(f.field.par * (1000 * l + 100 * t + 10 * i + j))
    [] f.field.kind = "nan"    -> NaN

GwValue(f, i) == IF f.gw = "uniform" THEN Num(1) ELSE Num(i)

Files(grids, lons, times, fields, gws) ==
  [lat : grids, nlon : lons, ntime : times, nlev : {2},
   field : fields, gw : gws]

\* Every grid of at most MaxLat rows, with one or MaxLon columns and one or
\* MaxTime time steps.
CoarseFiles ==
  Files(SeqsUpTo(LatValues, MaxLat), {1, MaxLon}, {1, MaxTime},
        CoarseFields, {"ramp"})

NamedFiles ==
  Files({FiveGrid}, {1, 2}, {1}, NamedFields, GwKinds)
    \cup Files({TwoDegGrid}, {1}, {1}, NamedFields, {"uniform"})
    \cup Files({UnevenGrid}, {2}, {1}, NamedFields, {"ramp"})

\* xr.open_dataset(...): the Dataset holding the file's variables.
open_dataset(f) ==
  LET n == Len(f.lat)
  IN  [lat  |-> [dims |-> <<"lat">>, size |-> <<n>>,
                 val |-> [idx \in IdxSet(<<n>>) |-> Num(f.lat[idx[1]])]],
       gw   |-> [dims |-> <<"lat">>, size |-> <<n>>,
                 val |-> [idx \in IdxSet(<<n>>) |-> GwValue(f, idx[1])]],
       FLNT |-> [dims |-> <<"time", "lat", "lon">>,
                 size |-> <<f.ntime, n, f.nlon>>,
                 val |-> [idx \in IdxSet(<<f.ntime, n, f.nlon>>) |->
                            FieldValue(f, idx[1], f.nlev, idx[2], idx[3])]],
       T    |-> [dims |-> <<"time", "lev", "lat", "lon">>,
                 size |-> <<f.ntime, f.nlev, n, f.nlon>>,
                 val |-> [idx \in IdxSet(<<f.ntime, f.nlev, n, f.nlon>>) |->
                            FieldValue(f, idx[1], idx[2], idx[3], idx[4])]]]

(***************************************************************************)
(* The kernel.  names is the set of names bound in the namespace; a name   *)
(* that is not bound holds the placeholder None.  A cell that reads an     *)
(* unbound name raises NameError and binds nothing.  The cells before the  *)
(* ones modelled here (the imports, datapath and endstr) have run.         *)
(***************************************************************************)
VARIABLES
  server,          \* the content of the file on the data server
  names,           \* names bound in the kernel namespace
  atm_control,     \* the Dataset
  coslat,
  weight_factor,
  weight_factor2,
  printed,         \* what the cell comparing the two weights last printed
  again,           \* the averaging lines applied to their own output
  raised,          \* the exception the last cell ended with, "" if none
  pc,              \* the next cell of a top-to-bottom run, 0 if the run is
                   \* not top-to-bottom
  qserver,         \* the content of the q-flux file on the data server
  som_input,       \* the Dataset of the q-flux file
  lev,             \* the contour levels
  months,          \* the list of month labels
  figs,            \* the axes drawn so far and what was drawn on each
  shown            \* what the cells displaying one month last displayed

averager == <<server, names, atm_control, coslat, weight_factor, weight_factor2, printed>>

qflux == <<qserver, som_input, lev, months, figs, shown>>

\* What the cells of the q-flux section leave alone.
atm == <<server, atm_control, coslat, weight_factor, weight_factor2, printed, again>>

vars == <<averager, again, raised, pc, qflux>>

\* Cell k has been run: a top-to-bottom run moves on to the next cell, any
\* other run is no longer top-to-bottom.
Advance(k) == pc' = IF pc = k THEN k + 1 ELSE 0

None == Scalar(NaN)

NoDataset == [lat |-> None, gw |-> None, FLNT |-> None, T |-> None]

NoOutput == [var |-> "", dims |-> {}, first |-> None, second |-> None]

\* The variables the averaging lines are run on: FLNT as the notebook writes
\* them, and a four-dimensional field (the homework runs the same lines on
\* other variables of the file).
AveragedVars == {"FLNT", "T"}

\* The dimensions the call sites average over: ('time', 'lon', 'lat') as the
\* notebook writes it, or latitude and longitude alone.
CallDims == {{"time", "lon", "lat"}, {"lon", "lat"}}

NoReapply == [of |-> None, dims |-> {}, out |-> None]

NoQdp == [qdp |-> None]

NoFigs == [a \in {} |-> 0]

NoDisplay == [done |-> FALSE, month |-> 0, grid |-> None]

NoShown == [isel |-> NoDisplay, slice |-> NoDisplay]

\* Nothing of the kernel beyond the namespace has been touched.
Fresh ==
  /\ atm_control = NoDataset
  /\ coslat = None
  /\ weight_factor = None
  /\ weight_factor2 = None
  /\ printed = NoOutput
  /\ again = NoReapply
  /\ raised = ""
  /\ som_input = NoQdp
  /\ lev = <<>>
  /\ months = <<>>
  /\ figs = NoFigs
  /\ shown = NoShown

InitWith(files) ==
  /\ server \in files
  /\ qserver = [rows |-> 1, cols |-> 1, kind |-> "coded"]
  /\ names = {"np", "plt", "xr", "datapath", "endstr"}
  /\ pc = 0
  /\ Fresh

Init == InitWith(CoarseFiles \cup NamedFiles)

\* atm_control = xr.open_dataset( datapath + '...cam.h0.clim.nc' + endstr )
OpenAtmControl ==
  /\ {"xr", "datapath", "endstr"} \subseteq names
  /\ atm_control' = open_dataset(server)
  /\ names' = names \cup {"atm_control"}
  /\ raised' = "" /\ Advance(22)
  /\ UNCHANGED <<server, coslat, weight_factor, weight_factor2, printed, again, qflux>>

\* from xarray.ufuncs import cos, deg2rad
ImportUfuncs ==
  /\ names' = names \cup {"cos", "deg2rad"}
  /\ raised' = "" /\ Advance(27)
  /\ UNCHANGED <<server, atm_control, coslat, weight_factor, weight_factor2, printed,
                 again, qflux>>

\* Mutants of the normalisation: the division by the mean left out, and the
\* operands of the division exchanged.
WeightOfUnnormalised(c) == c

WeightOfInverted(c) == Div(Mean(c, {"lat"}), c)

\* Mutant of the normalisation: the divisor taken from the gw of the file.
WeightOfByGw(c) == Div(c, Mean(atm_control.gw, {"lat"}))

\* coslat / coslat.mean(dim='lat')
WeightOf(c) == Div(c, Mean(c, {"lat"}))

\* coslat = cos(deg2rad(atm_control.lat))
\* weight_factor = coslat / coslat.mean(dim='lat')
WeightCell ==
  /\ {"cos", "deg2rad", "atm_control"} \subseteq names
  /\ LET c == ufunc_cos(ufunc_deg2rad(atm_control.lat))
     IN  /\ coslat' = c
         /\ weight_factor' = WeightOf(c)
  /\ names' = names \cup {"coslat", "weight_factor"}
  /\ raised' = "" /\ Advance(28)
  /\ UNCHANGED <<server, atm_control, weight_factor2, printed, again, qflux>>

\* weight_factor2 = atm_control.gw / atm_control.gw.mean(dim='lat')
Weight2Cell ==
  /\ "atm_control" \in names
  /\ weight_factor2' = WeightOf(atm_control.gw)
  /\ names' = names \cup {"weight_factor2"}
  /\ raised' = "" /\ Advance(30)
  /\ UNCHANGED <<server, atm_control, coslat, weight_factor, printed, again, qflux>>

\* Mutant of the averaging: the plain mean over the grid points, the weight
\* left out.
UnweightedMean(field, weight, dims) == Mean(field, dims)

\* (field * weight).mean(dim=dims)
WeightedMean(field, weight, dims) == Mean(Mul(field, weight), dims)

\* print (atm_control.FLNT * weight_factor).mean(dim=('time', 'lon', 'lat'))
\* print (atm_control.FLNT * weight_factor2).mean(dim=('time', 'lon', 'lat'))
CompareCell(var, dims) ==
  /\ {"atm_control", "weight_factor", "weight_factor2"} \subseteq names
  /\ IF MeanRaises(Mul(atm_control[var], weight_factor), dims)
     THEN raised' = "ValueError" /\ printed' = printed
     ELSE /\ raised' = ""
          /\ printed' =
               [var    |-> var,
                dims   |-> dims,
                first  |-> WeightedMean(atm_control[var], weight_factor, dims),
                second |-> WeightedMean(atm_control[var], weight_factor2, dims)]
  /\ Advance(31)
  /\ UNCHANGED <<server, names, atm_control, coslat, weight_factor, weight_factor2,
                 again, qflux>>

\* The dimensions the averaging lines are run over when they are applied to
\* what they printed: those of the notebook's call sites, and latitude alone.
ReapplyDims == CallDims \cup {{"lat"}}

\* (out * weight_factor).mean(dim=dims), out being the first value the cell
\* comparing the weights printed.
AverageAgain(dims) ==
  /\ {"weight_factor"} \subseteq names
  /\ printed # NoOutput
  /\ IF MeanRaises(Mul(printed.first, weight_factor), dims)
     THEN /\ raised' = "ValueError"
          /\ again' = [of |-> printed.first, dims |-> dims, out |-> None]
     ELSE /\ raised' = ""
          /\ again' = [of |-> printed.first, dims |-> dims,
                       out |-> WeightedMean(printed.first, weight_factor, dims)]
  /\ pc' = 0
  /\ UNCHANGED <<averager, qflux>>

Next ==
  \/ OpenAtmControl
  \/ ImportUfuncs
  \/ WeightCell
  \/ Weight2Cell
  \/ \E var \in AveragedVars, dims \in CallDims : CompareCell(var, dims)

Spec == Init /\ [][Next]_vars

\* The averaging cells, followed by the averaging lines applied to their own
\* output.
ReapplyFiles ==
  Files(SeqsUpTo(LatValues, MaxLat), {MaxLon}, {MaxTime},
        {[kind |-> "coded", par |-> 1], [kind |-> "nan", par |-> 1]}, {"ramp"})

ReapplyInit == InitWith(ReapplyFiles)

ReapplyNext ==
  \/ Next
  \/ \E dims \in ReapplyDims : AverageAgain(dims)

ReapplySpec == ReapplyInit /\ [][ReapplyNext]_vars

(***************************************************************************)
(* The cells on the air temperature: atm_control['T'] is read, then        *)
(* renamed in place to 'Ta', then atm_control.Ta is plotted.               *)
(***************************************************************************)
\* Mutant of the renaming: the variable is kept under its old name too.
RenameKeepingOld(ds, old, new) ==
  [k \in DOMAIN ds \cup {new} |-> IF k = new THEN ds[old] ELSE ds[k]]

\* ds.rename({old: new}): the variable old is found under the name new and
\* no longer under old.
Rename(ds, old, new) ==
  [k \in (DOMAIN ds \ {old}) \cup {new} |-> IF k = new THEN ds[old] ELSE ds[k]]

\* atm_control['T'].shape (cell 35) and atm_control['T'] (cell 37): KeyError
\* when the Dataset has no variable 'T'.
ReadTCell(k) ==
  /\ "atm_control" \in names
  /\ raised' = IF "T" \in DOMAIN atm_control THEN "" ELSE "KeyError"
  /\ Advance(k)
  /\ UNCHANGED <<averager, again, qflux>>

\* atm_control.rename({'T': 'Ta'}, inplace=True); atm_control.Ta
\* rename raises ValueError when the Dataset has no variable 'T'.
RenameCell ==
  /\ "atm_control" \in names
  /\ IF "T" \in DOMAIN atm_control
     THEN raised' = "" /\ atm_control' = Rename(atm_control, "T", "Ta")
     ELSE raised' = "ValueError" /\ atm_control' = atm_control
  /\ Advance(38)
  /\ UNCHANGED <<server, names, coslat, weight_factor, weight_factor2, printed,
                 again, qflux>>

\* plt.plot( atm_control.Ta[0,:,70,115], atm_control.lev ); ...
\* AttributeError when the Dataset has no variable 'Ta'.  (The indices 70
\* and 115 lie within the 96 x 144 grid of the file.)
PlotTaCell ==
  /\ {"plt", "atm_control"} \subseteq names
  /\ raised' = IF "Ta" \in DOMAIN atm_control THEN "" ELSE "AttributeError"
  /\ Advance(39)
  /\ UNCHANGED <<averager, again, qflux>>

\* The cells on the air temperature, in any order.
RenameFiles ==
  Files(SeqsUpTo(LatValues, MaxLat), {1, MaxLon}, {1},
        {[kind |-> "coded", par |-> 1]}, {"ramp"})

RenameInit == InitWith(RenameFiles)

RenameNext ==
  \/ OpenAtmControl
  \/ \E k \in {35, 37} : ReadTCell(k)
  \/ RenameCell
  \/ PlotTaCell

RenameSpec == RenameInit /\ [][RenameNext]_vars

(***************************************************************************)
(* The q-flux file pop_frc.1x1d.090130.nc: qdp, one grid for each of the   *)
(* 12 calendar months (12 x 180 x 360 in the file; the model keeps the 12  *)
(* months and at most MaxGrid rows and columns).                           *)
(***************************************************************************)
NMonths == 12

QdpFiles == [rows : 1..MaxGrid, cols : 1..MaxGrid, kind : {"coded", "flat"}]

\* The value of qdp in month t, row i, column j: different in every cell, or
\* the same everywhere.
QdpValue(f, t, i, j) ==
  IF f.kind = "coded" THEN Num(100 * t + 10 * i + j) ELSE Num(7)

\* xr.open_dataset( datapath + 'som_input/pop_frc.1x1d.090130.nc' + endstr )
open_som_input(f) ==
  [qdp |-> [dims |-> <<"time", "lat", "lon">>,
            size |-> <<NMonths, f.rows, f.cols>>,
            val |-> [idx \in IdxSet(<<NMonths, f.rows, f.cols>>) |->
                       QdpValue(f, idx[1], idx[2], idx[3])]]]

\* An integer index m into an axis of length n: out of range it raises
\* IndexError, negative it counts from the end.
IndexRaises(n, m) == m >= n \/ m < -n

Wrap(n, m) == IF m < 0 THEN m + n ELSE m

RemoveAt(q, p) == SubSeq(q, 1, p - 1) \o SubSeq(q, p + 1, Len(q))

InsertAt(q, p, x) == SubSeq(q, 1, p - 1) \o <<x>> \o SubSeq(q, p, Len(q))

\* Mutant of isel: the entry after the one asked for (the first after the
\* last).
iselNextEntry(a, name, m) ==
  LET p == Pos(a.dims, name)
      size == RemoveAt(a.size, p)
  IN  [dims |-> RemoveAt(a.dims, p), size |-> size,
       val |-> [k \in IdxSet(size) |->
                  a.val[InsertAt(k, p, ((Wrap(a.size[p], m) + 1) % a.size[p]) + 1)]]]

\* a.isel(name=m): the entry m (from zero) along the dimension called name,
\* which the result no longer has.
isel(a, name, m) ==
  LET p == Pos(a.dims, name)
      size == RemoveAt(a.size, p)
  IN  [dims |-> RemoveAt(a.dims, p), size |-> size,
       val |-> [k \in IdxSet(size) |-> a.val[InsertAt(k, p, Wrap(a.size[p], m) + 1)]]]

\* The indexers of a[...]: an integer, or ':' (everything along the axis).
Colon == [slice |-> TRUE, at |-> 0]

At(m) == [slice |-> FALSE, at |-> m]

\* a[key]: the indexers apply to the axes in their order; an axis indexed by
\* an integer is dropped, one indexed by ':' is kept.
getitem(a, key) ==
  LET n == Len(a.dims)
      IsSlice(p) == key[p].slice
      keptPos == SelectSeq([p \in 1..n |-> p], IsSlice)
      size == [q \in 1..Len(keptPos) |-> a.size[keptPos[q]]]
  IN  [dims |-> [q \in 1..Len(keptPos) |-> a.dims[keptPos[q]]],
       size |-> size,
       val |-> [k \in IdxSet(size) |->
                  a.val[[p \in 1..n |->
                           IF key[p].slice THEN k[Pos(keptPos, p)]
                           ELSE Wrap(a.size[p], key[p].at) + 1]]]]

\* The month indices the cells displaying one month are run with: 0 as the
\* notebook writes them, any other month, the last one counted from the end
\* and one past the end.
MonthInputs == -1..NMonths

\* som_input = xr.open_dataset( ... )
OpenSomInput ==
  /\ {"xr", "datapath", "endstr"} \subseteq names
  /\ som_input' = open_som_input(qserver)
  /\ names' = names \cup {"som_input"}
  /\ raised' = "" /\ Advance(10)
  /\ UNCHANGED <<atm, qserver, lev, months, figs, shown>>

\* som_input.qdp.isel(time=0)
IselCell(m) ==
  /\ "som_input" \in names
  /\ IF IndexRaises(som_input.qdp.size[Pos(som_input.qdp.dims, "time")], m)
     THEN raised' = "IndexError" /\ shown' = shown
     ELSE /\ raised' = ""
          /\ shown' = [shown EXCEPT !.isel =
                         [done |-> TRUE, month |-> m,
                          grid |-> isel(som_input.qdp, "time", m)]]
  /\ Advance(14)
  /\ UNCHANGED <<atm, names, qserver, som_input, lev, months, figs>>

\* som_input.qdp[0,:,:]
SliceCell(m) ==
  /\ "som_input" \in names
  /\ IF IndexRaises(som_input.qdp.size[1], m)
     THEN raised' = "IndexError" /\ shown' = shown
     ELSE /\ raised' = ""
          /\ shown' = [shown EXCEPT !.slice =
                         [done |-> TRUE, month |-> m,
                          grid |-> getitem(som_input.qdp, <<At(m), Colon, Colon>>)]]
  /\ Advance(15)
  /\ UNCHANGED <<atm, names, qserver, som_input, lev, months, figs>>

\* The cells displaying one month of qdp, in any order, on any q-flux file.
SliceInit ==
  /\ server = [lat |-> <<0>>, nlon |-> 1, ntime |-> 1, nlev |-> 2,
               field |-> [kind |-> "const", par |-> 1], gw |-> "uniform"]
  /\ qserver \in QdpFiles
  /\ names = {"np", "plt", "xr", "datapath", "endstr"}
  /\ pc = 0
  /\ Fresh

SliceNext ==
  \/ OpenSomInput
  \/ \E m \in MonthInputs : IselCell(m)
  \/ \E m \in MonthInputs : SliceCell(m)

SliceSpec == SliceInit /\ [][SliceNext]_vars

(***************************************************************************)
(* The plots of the q-flux section.  An axes is recorded by what has been  *)
(* drawn on it: the month index a call of sh received (-1 for the other    *)
(* axes), title, axis labels, text label, the contoured data with its      *)
(* levels, and whether the coastline contour was added.                    *)
(***************************************************************************)
NewAxes ==
  [month |-> -1, title |-> "", xlabel |-> "", ylabel |-> "", text |-> "",
   data |-> None, levels |-> <<>>, coast |-> FALSE]

\* np.arange(start, stop, step) on integers.
np_arange(start, stop, step) ==
  [i \in 1..((stop - start + step - 1) \div step) |-> start + (i - 1) * step]

\* lev = np.arange(0., 6., 0.5), in halves.
TopoLev == [i \in 1..12 |-> Rat(np_arange(0, 12, 1)[i], 2)]

\* lev = np.arange(-700., 750., 50.)
QfluxLev == [i \in 1..29 |-> Num(np_arange(-700, 750, 50)[i])]

MonthNames ==
  <<"Jan", "Feb", "Mar", "Apr", "May", "Jun", "Jul", "Aug",
    "Sep", "Oct", "Nov", "Dec">>

AnnualTitle == "CESM: Prescribed heat flux out of ocean (W m$^{-2}$), annual mean"

ShTitle == "CESM: Prescribed heat flux out of ocean (W m$^{-2}$)"

\* -a
Neg(a) == [a EXCEPT !.val = [idx \in DOMAIN a.val |-> NMul(Num(-1), a.val[idx])]]

\* The axes with a drawn on it under the name nm.
WithAxes(nm, a) == [x \in DOMAIN figs \cup {nm} |-> IF x = nm THEN a ELSE figs[x]]

\* lev = np.arange(0., 6., 0.5); fig1, ax1 = ...: the topography plot.
TopoPlotCell ==
  /\ {"np", "plt", "height", "topo"} \subseteq names
  /\ lev' = TopoLev
  /\ names' = names \cup {"lev", "fig1", "ax1", "cax1", "cbar1"}
  /\ raised' = "" /\ Advance(8)
  /\ UNCHANGED <<atm, qserver, som_input, months, figs, shown>>

\* ax3 as the annual mean plot cell draws it.
AnnualAxes ==
  [NewAxes EXCEPT !.data = Neg(Mean(som_input.qdp, {"time"})),
                  !.levels = QfluxLev,
                  !.title = AnnualTitle,
                  !.xlabel = "Longitude",
                  !.ylabel = "Latitude",
                  !.text = "Annual",
                  !.coast = TRUE]

\* fig3, ax3 = plt.subplots(...); lev = np.arange(-700., 750., 50.); ...
AnnualPlotCell ==
  /\ {"np", "plt", "som_input", "topo"} \subseteq names
  /\ lev' = QfluxLev
  /\ figs' = WithAxes("ax3", AnnualAxes)
  /\ names' = names \cup {"fig3", "ax3", "lev", "cax3", "cbar3"}
  /\ raised' = "" /\ Advance(13)
  /\ UNCHANGED <<atm, qserver, som_input, months, shown>>

\* ax4 had the January plot cell set the axis labels on its own axes.
Fig4AxesLabelled ==
  [NewAxes EXCEPT !.data = Neg(isel(som_input.qdp, "time", 0)),
                  !.levels = lev,
                  !.title = ShTitle,
                  !.xlabel = "Longitude",
                  !.ylabel = "Latitude"]

\* ax4 after ax4.contourf(...) and ax4.set_title(...).
Fig4Axes ==
  [NewAxes EXCEPT !.data = Neg(isel(som_input.qdp, "time", 0)),
                  !.levels = lev,
                  !.title = ShTitle]

\* fig4, ax4 = plt.subplots(...); cax4 = ax4.contourf(...); ...;
\* ax3.set_xlabel(...); ax3.set_ylabel(...); ax4.text(...); ax4.contour(...)
\* Without ax3 the cell raises NameError at ax3.set_xlabel, after the title.
Fig4Cell ==
  /\ {"plt", "som_input", "lev", "topo"} \subseteq names
  /\ names' = names \cup {"fig4", "ax4", "cax4", "cbar4"}
  /\ IF "ax3" \in names
     THEN /\ raised' = ""
          /\ figs' = [WithAxes("ax4", [Fig4Axes EXCEPT !.text = "January",
                                                       !.coast = TRUE])
                        EXCEPT !.ax3.xlabel = "Longitude",
                               !.ax3.ylabel = "Latitude"]
     ELSE /\ raised' = "NameError"
          /\ figs' = WithAxes("ax4", Fig4Axes)
  /\ Advance(16)
  /\ UNCHANGED <<atm, qserver, som_input, lev, months, shown>>

\* months = ['Jan', ..., 'Dec']
MonthsCell ==
  /\ months' = MonthNames
  /\ names' = names \cup {"months"}
  /\ raised' = "" /\ Advance(17)
  /\ UNCHANGED <<atm, qserver, som_input, lev, figs, shown>>

\* def sh(month): ...
DefShCell ==
  /\ names' = names \cup {"sh"}
  /\ raised' = "" /\ Advance(19)
  /\ UNCHANGED <<atm, qserver, som_input, lev, months, figs, shown>>

\* The globals sh reads before its text label; the call sites are taken
\* with these bound.
ShReads == {"plt", "som_input", "lev", "topo"}

\* The exception a call sh(m) ends with: IndexError from isel(time=m) or
\* from months[m], NameError when months is not bound, none otherwise.
ShRaises(m) ==
  IF IndexRaises(som_input.qdp.size[Pos(som_input.qdp.dims, "time")], m)
  THEN "IndexError"
  ELSE IF "months" \notin names THEN "NameError"
  ELSE IF IndexRaises(Len(months), m) THEN "IndexError"
  ELSE ""

\* The axes a call sh(m) leaves: complete, or as far as the call got.
ShAxes(m) ==
  LET made == [NewAxes EXCEPT !.month = m]
  IN  IF IndexRaises(som_input.qdp.size[Pos(som_input.qdp.dims, "time")], m)
      THEN made
      ELSE LET drawn == [made EXCEPT !.data = Neg(isel(som_input.qdp, "time", m)),
                                     !.levels = lev,
                                     !.title = ShTitle,
                                     !.xlabel = "Longitude",
                                     !.ylabel = "Latitude"]
           IN  IF ShRaises(m) # "" THEN drawn
               ELSE [drawn EXCEPT !.text = months[Wrap(Len(months), m) + 1],
                                  !.coast = TRUE]

\* sh(6)
ShCell ==
  /\ {"sh"} \cup ShReads \subseteq names
  /\ figs' = WithAxes("sh6", ShAxes(6))
  /\ raised' = ShRaises(6)
  /\ Advance(20)
  /\ UNCHANGED <<atm, names, qserver, som_input, lev, months, shown>>

\* Mutant of the slider: one position past its maximum.
SliderPastMax(lo, hi, step) == {lo + k * step : k \in 0..(((hi - lo) \div step) + 1)}

\* The positions of the slider interact builds from (min, max, step), and
\* the position it starts at.
SliderPositions(lo, hi, step) == {lo + k * step : k \in 0..((hi - lo) \div step)}

SliderStart(lo, hi, step) == lo + (((hi - lo) \div 2) \div step) * step

\* from ipywidgets import interact; interact(sh, month=(0,11,1)): the slider
\* is built and sh is called with its starting position.  An exception of
\* the call is shown under the slider.
InteractCell ==
  /\ {"sh"} \cup ShReads \subseteq names
  /\ names' = names \cup {"interact"}
  /\ figs' = WithAxes("widget", ShAxes(SliderStart(0, 11, 1)))
  /\ raised' = ShRaises(SliderStart(0, 11, 1))
  /\ Advance(21)
  /\ UNCHANGED <<atm, qserver, som_input, lev, months, shown>>

\* The user moves the slider: sh is called with the new position and its
\* figure replaces the one under the slider.
SliderMove(month) ==
  /\ "interact" \in names /\ "widget" \in DOMAIN figs
  /\ figs' = WithAxes("widget", ShAxes(month))
  /\ raised' = ShRaises(month)
  /\ UNCHANGED <<atm, names, pc, qserver, som_input, lev, months, shown>>

\* The names bound when the cells down to the first plot of qdp have run.
NamesBeforeAnnualPlot ==
  {"np", "plt", "xr", "datapath", "endstr", "fullURL", "topo", "g",
   "meters_per_kilometer", "height", "lev", "fig1", "ax1", "cax1", "cbar1",
   "fig2", "ax2", "cax2", "cbar2", "som_input"}

\* The cells of the q-flux plots, in any order, after the cells above them
\* have run from top to bottom.
QfluxInit ==
  /\ server = [lat |-> <<0>>, nlon |-> 1, ntime |-> 1, nlev |-> 2,
               field |-> [kind |-> "const", par |-> 1], gw |-> "uniform"]
  /\ qserver \in {f \in QdpFiles : f.rows = MaxGrid /\ f.cols = MaxGrid}
  /\ names = NamesBeforeAnnualPlot
  /\ pc = 0
  /\ atm_control = NoDataset
  /\ coslat = None
  /\ weight_factor = None
  /\ weight_factor2 = None
  /\ printed = NoOutput
  /\ again = NoReapply
  /\ raised = ""
  /\ som_input = open_som_input(qserver)
  /\ lev = TopoLev
  /\ months = <<>>
  /\ figs = NoFigs
  /\ shown = NoShown

QfluxNext ==
  \/ TopoPlotCell
  \/ AnnualPlotCell
  \/ Fig4Cell
  \/ MonthsCell
  \/ DefShCell
  \/ ShCell
  \/ InteractCell
  \/ \E month \in SliderPositions(0, 11, 1) : SliderMove(month)

QfluxSpec == QfluxInit /\ [][QfluxNext]_vars

(***************************************************************************)
(* The whole notebook, its code cells numbered 1..NCells from the top.     *)
(* Reads(k) are the names cell k needs bound when it runs (for a cell that *)
(* calls sh, those sh reads too), Binds(k) the names it binds.             *)
(***************************************************************************)
NCells == 42

Reads(k) ==
  CASE k = 3 -> {"xr", "fullURL"}
    [] k \in {4, 5} -> {"topo"}
    [] k \in {6, 7} -> {"height"}
    [] k = 8 -> {"np", "plt", "height", "topo"}
    [] k = 9 -> {"plt", "topo"}
    [] k = 10 -> {"xr", "datapath", "endstr"}
    [] k \in {11, 12, 14, 15} -> {"som_input"}
    [] k = 13 -> {"np", "plt", "som_input", "topo"}
    [] k = 16 -> {"plt", "som_input", "lev", "ax3", "topo"}
    [] k = 18 -> {"months"}
    [] k \in {20, 21} -> {"sh", "plt", "som_input", "lev", "months", "topo"}
    [] k = 22 -> {"xr", "datapath", "endstr"}
    [] k \in {23, 24, 25, 30, 32, 33, 34, 35, 36, 37, 38, 40} -> {"atm_control"}
    [] k = 28 -> {"cos", "deg2rad", "atm_control"}
    [] k = 29 -> {"weight_factor"}
    [] k = 31 -> {"atm_control", "weight_factor", "weight_factor2"}
    [] k = 39 -> {"plt", "atm_control"}
    [] OTHER -> {}

\* Mutant of the bindings: no cell binds a name.
BindsNothing(k) == {}

Binds(k) ==
  CASE k = 1 -> {"np", "plt", "xr"}
    [] k = 2 -> {"datapath", "endstr", "fullURL"}
    [] k = 3 -> {"topo"}
    [] k = 5 -> {"g", "meters_per_kilometer", "height"}
    [] k = 8 -> {"lev", "fig1", "ax1", "cax1", "cbar1"}
    [] k = 9 -> {"fig2", "ax2", "cax2", "cbar2"}
    [] k = 10 -> {"som_input"}
    [] k = 13 -> {"fig3", "ax3", "lev", "cax3", "cbar3"}
    [] k = 16 -> {"fig4", "ax4", "cax4", "cbar4"}
    [] k = 17 -> {"months"}
    [] k = 19 -> {"sh"}
    [] k = 21 -> {"interact"}
    [] k = 22 -> {"atm_control"}
    [] k = 26 -> {"Image"}
    [] k = 27 -> {"cos", "deg2rad"}
    [] k = 28 -> {"coslat", "weight_factor"}
    [] k = 30 -> {"weight_factor2"}
    [] k = 33 -> {"var"}
    [] k = 34 -> {"CRE_LW"}
    [] OTHER -> {}

\* The cells that only bind names or display a value.
OtherCells == {1, 2, 3, 4, 5, 6, 7, 9, 11, 12, 18, 23, 24, 25, 26, 29, 32, 33, 34, 36, 40, 41, 42}

OtherCell(k) ==
  /\ Reads(k) \subseteq names
  /\ names' = names \cup Binds(k)
  /\ raised' = "" /\ Advance(k)
  /\ UNCHANGED <<atm, qflux>>

\* The cells run once each from top to bottom in a new kernel (a run stops
\* at a cell that raises); once the slider is there the user may move it.
RunAllFiles == Files({FiveGrid}, {1, 2}, {1}, NamedFields, GwKinds)

RunAllInit ==
  /\ server \in RunAllFiles
  /\ qserver \in {f \in QdpFiles : f.rows = MaxGrid /\ f.cols = MaxGrid}
  /\ names = {}
  /\ pc = 1
  /\ Fresh

\* Cell k is the next to run, and the run has not stopped.
InOrder(k) == raised = "" /\ pc = k

RunAllNext ==
  \/ \E k \in OtherCells : InOrder(k) /\ OtherCell(k)
  \/ InOrder(8) /\ TopoPlotCell
  \/ InOrder(10) /\ OpenSomInput
  \/ InOrder(13) /\ AnnualPlotCell
  \/ InOrder(14) /\ IselCell(0)
  \/ InOrder(15) /\ SliceCell(0)
  \/ InOrder(16) /\ Fig4Cell
  \/ InOrder(17) /\ MonthsCell
  \/ InOrder(19) /\ DefShCell
  \/ InOrder(20) /\ ShCell
  \/ InOrder(21) /\ InteractCell
  \/ InOrder(22) /\ OpenAtmControl
  \/ InOrder(27) /\ ImportUfuncs
  \/ InOrder(28) /\ WeightCell
  \/ InOrder(30) /\ Weight2Cell
  \/ InOrder(31) /\ CompareCell("FLNT", {"time", "lon", "lat"})
  \/ \E k \in {35, 37} : InOrder(k) /\ ReadTCell(k)
  \/ InOrder(38) /\ RenameCell
  \/ InOrder(39) /\ PlotTaCell
  \/ \E month \in SliderPositions(0, 11, 1) : raised = "" /\ SliderMove(month)

RunAllSpec == RunAllInit /\ [][RunAllNext]_vars

(***************************************************************************)
(* Properties.                                                             *)
(***************************************************************************)
nlat == Len(server.lat)

InRange == \A i \in 1..nlat : server.lat[i] >= -90 /\ server.lat[i] <= 90

Averaged == printed.dims # {}

SpatialOnly == printed.dims = {"lon", "lat"}

\* The cosine of row i and the sum of the cosines of the rows.
CosRow(i) == CosDegrees(server.lat[i])

CosSum == SumSeq([i \in 1..nlat |-> CosRow(i)])

\* The normalisation does not divide by zero.
CosSumNonZero == nlat >= 1 /\ ~IsZero(CosSum)

\* The field the last averaging call read, and its cell at the kept index k,
\* row i and column j (latitude and longitude are the last two dimensions).
AveragedField == atm_control[printed.var]

FieldAt(k, i, j) == AveragedField.val[k \o <<i, j>>]

RefMean(k) ==
  LET n == server.nlon
      Term(c) == NMul(CosRow(((c - 1) \div n) + 1),
                      FieldAt(k, ((c - 1) \div n) + 1, ((c - 1) % n) + 1))
  IN  NDiv(SumSeq([c \in 1..(nlat * n) |-> Term(c)]), NMul(Num(n), CosSum))

\* No cell of the averaged field is missing (NaN).
NoMissing == \A idx \in DOMAIN AveragedField.val : ~IsNaN(AveragedField.val[idx])

\* C2 as stated: the averager equals the reference area-weighted mean: each
\* value of the average over (lat, lon) is (sum of cos(lat_i) * f[i][j])
\* divided by (nlon * sum of cos(lat_i)), for every field and every kept
\* index.
C2_Original ==
  (Averaged /\ SpatialOnly /\ CosSumNonZero) =>
    \A k \in DOMAIN printed.first.val : printed.first.val[k] = RefMean(k)

\* C2 amended: the averager equals the reference area-weighted mean for
\* every field without missing values; .mean skips NaN cells, so a field
\* with some cells missing averages to a number where the reference sum
\* is NaN.
C2_EqualsReferenceMean ==
  (Averaged /\ SpatialOnly /\ CosSumNonZero /\ NoMissing) =>
    \A k \in DOMAIN printed.first.val : printed.first.val[k] = RefMean(k)

\* C2 witness: a field with a different value in every cell, on two rows of
\* different weight and two columns, has been averaged.
C2_Witness ==
  /\ Averaged /\ SpatialOnly /\ printed.var = "T"
  /\ server.field.kind = "coded" /\ server.lat = <<0, 45>> /\ server.nlon = 2
  /\ printed.first.val[<<1, 1>>] = RefMean(<<1, 1>>)

\* C3: after normalisation the weights average to 1: the mean over latitude
\* of weight_factor is 1 when the cosines do not sum to zero, and that of
\* weight_factor2 is 1 when the gw values do not sum to zero.
C3_WeightsAverageToOne ==
  /\ ("weight_factor" \in names /\ CosSumNonZero) =>
       Mean(weight_factor, {"lat"}) = Scalar(Num(1))
  /\ ("weight_factor2" \in names /\ nlat >= 1
        /\ ~IsZero(SumSeq(Cells(atm_control.gw, {"lat"}, <<>>)))) =>
       Mean(weight_factor2, {"lat"}) = Scalar(Num(1))

\* C3 witness: both weights were computed on a grid of two rows with
\* different cosines and different gw.
C3_Witness ==
  /\ {"weight_factor", "weight_factor2"} \subseteq names
  /\ server.lat = <<-90, 45>> /\ server.gw = "ramp"
  /\ weight_factor.val[<<1>>] # weight_factor.val[<<2>>]
  /\ weight_factor2.val[<<1>>] # weight_factor2.val[<<2>>]

\* Comparison of finite numbers, and closeness within a tolerance.
NLe(x, y) == x.n * y.d <= y.n * x.d

NSub(x, y) == NAdd(x, NMul(Num(-1), y))

Near(x, target, tol) ==
  IsFin(x) /\ NLe(NSub(x, target), tol) /\ NLe(NSub(target, x), tol)

\* The resolution of the cosine table.
Tolerance == Rat(1, CosScale)

\* The plain (unweighted) mean of the averaged field over the same dimensions.
PlainMean == Mean(AveragedField, printed.dims)

\* The field cos(latitude) on the grid -90, -88, ..., 90 has been averaged.
CosOnTwoDegGrid ==
  /\ Averaged
  /\ server.lat = TwoDegGrid
  /\ server.field = [kind |-> "coslat", par |-> 1]

\* C4 as stated: for the field cos(latitude) on the grid -90..90 in steps of
\* 2 degrees the unweighted mean is about 0.63 and the cosine-weighted mean
\* is about 0.
C4_Original ==
  CosOnTwoDegGrid =>
    \A k \in DOMAIN printed.first.val :
      /\ Near(PlainMean.val[k], Rat(63, 100), Tolerance)
      /\ Near(printed.first.val[k], Num(0), Tolerance)

\* C4 amended: for the field cos(latitude) on the grid -90..90 in steps of
\* 2 degrees the unweighted mean is about 0.63 and the cosine-weighted mean
\* is about 0.785 (sum of cos^2 over sum of cos), not 0.
C4_CosFieldMeans ==
  CosOnTwoDegGrid =>
    \A k \in DOMAIN printed.first.val :
      /\ Near(PlainMean.val[k], Rat(63, 100), Tolerance)
      /\ Near(printed.first.val[k], Rat(785, 1000), Tolerance)

\* C4 witness: the case has been computed, over latitude and longitude.
C4_Witness ==
  /\ CosOnTwoDegGrid /\ SpatialOnly /\ printed.var = "FLNT" /\ server.nlon = 1
  /\ Near(printed.first.val[<<1>>], Rat(785, 1000), Tolerance)
  /\ ~Near(printed.first.val[<<1>>], Num(0), Tolerance)

\* The grid has two rows with different |latitude|.
TwoAbsLatitudes ==
  \E i, j \in 1..nlat : Abs(server.lat[i]) # Abs(server.lat[j])

\* C5: for a field proportional to cos(latitude) on a grid of latitudes in
\* [-90, 90] with at least two distinct |latitude| values, the unweighted
\* mean and the cosine-weighted mean are different numbers.
C5_WeightingMatters ==
  (Averaged /\ server.field.kind = "coslat" /\ InRange /\ TwoAbsLatitudes) =>
    \A k \in DOMAIN printed.first.val :
      /\ IsFin(printed.first.val[k])
      /\ printed.first.val[k] # PlainMean.val[k]

\* C5 witness: such a field was averaged on the rows 0 and 45.
C5_Witness ==
  /\ Averaged /\ SpatialOnly /\ printed.var = "FLNT"
  /\ server.field = [kind |-> "coslat", par |-> 3] /\ server.lat = <<0, 45>>
  /\ printed.first.val[<<1>>] # PlainMean.val[<<1>>]

\* C6: the result has exactly the reduced axes removed: averaging
\* FLNT(time, lat, lon) over lat and lon leaves (time), over time, lon and
\* lat a scalar; averaging T(time, lev, lat, lon) over lat and lon leaves
\* (time, lev) in that order and with their lengths, and time disappears
\* only when the caller lists it.
C6_ReducedAxesRemoved ==
  Averaged =>
    LET Shape(r) == <<r.dims, r.size, DOMAIN r.val>>
        Expect(dims, size) == <<dims, size, IdxSet(size)>>
        want ==
          CASE printed.var = "FLNT" /\ SpatialOnly ->
                 Expect(<<"time">>, <<server.ntime>>)
            [] printed.var = "FLNT" /\ ~SpatialOnly -> Expect(<<>>, <<>>)
            [] printed.var = "T" /\ SpatialOnly ->
                 Expect(<<"time", "lev">>, <<server.ntime, server.nlev>>)
            [] printed.var = "T" /\ ~SpatialOnly ->
                 Expect(<<"lev">>, <<server.nlev>>)
    IN  Shape(printed.first) = want /\ Shape(printed.second) = want

\* C6 witness: a four-dimensional field with two times and two levels was
\* reduced over latitude and longitude only.
C6_Witness ==
  /\ Averaged /\ SpatialOnly /\ printed.var = "T"
  /\ server.ntime = 2 /\ nlat = 2 /\ server.nlon = 2
  /\ printed.first.dims = <<"time", "lev">>

\* The sum of the cosines the weight cell computed.
CoslatSum == SumSeq(Cells(coslat, {"lat"}, <<>>))

\* C8 as stated: for every non-empty latitude grid the sum of cos(latitude)
\* over the rows is non-zero, so that the normalisation divides by zero only
\* when the latitude axis is empty.
C8_Original ==
  ("coslat" \in names /\ nlat >= 1) => ~IsZero(CoslatSum)

\* C8 amended: for every non-empty grid whose latitudes lie in [-90, 90] the
\* sum of cos(latitude) over the rows is non-zero (it is positive), and the
\* weights are finite.
C8_InRangeSumNonZero ==
  ("coslat" \in names /\ nlat >= 1 /\ InRange) =>
    /\ IsFin(CoslatSum) /\ CoslatSum.n > 0
    /\ \A i \in 1..nlat : IsFin(weight_factor.val[<<i>>])

\* C8 witness: the weights of a grid whose rows are all at a pole.
C8_Witness ==
  /\ "coslat" \in names /\ server.lat = <<-90, -90>>
  /\ CoslatSum.n > 0
  /\ weight_factor.val[<<2>>] = Num(1)

\* C9: with exactly one latitude row, whatever its latitude, the normalised
\* weight of the row is 1 and the weighted average of any field equals its
\* unweighted average.
C9_SingleRowNoOp ==
  nlat = 1 =>
    /\ "weight_factor" \in names => weight_factor.val[<<1>>] = Num(1)
    /\ Averaged => printed.first = PlainMean

\* C9 witness: a one-row grid at the pole, with a field that differs from
\* column to column, has been averaged.
C9_Witness ==
  /\ Averaged /\ server.lat = <<-90>> /\ server.nlon = 2
  /\ server.field.kind = "coded"
  /\ weight_factor.val[<<1>>] = Num(1)
  /\ printed.first = PlainMean

\* C10: on every grid whose latitudes lie in [-90, 90] every weight is
\* non-negative and the weights are in the ratios of the cosines of their
\* latitudes: weight[i] * cos(lat_k) = weight[k] * cos(lat_i).
C10_WeightsProportionalToCos ==
  ("weight_factor" \in names /\ InRange) =>
    \A i, k \in 1..nlat :
      /\ IsFin(weight_factor.val[<<i>>])
      /\ weight_factor.val[<<i>>].n >= 0
      /\ NMul(weight_factor.val[<<i>>], CosRow(k))
           = NMul(weight_factor.val[<<k>>], CosRow(i))

\* C10 witness: weights of the rows -90, 0 with different cosines.
C10_Witness ==
  /\ "weight_factor" \in names /\ server.lat = <<-90, 0>>
  /\ weight_factor.val[<<1>>].n > 0
  /\ weight_factor.val[<<1>>] # weight_factor.val[<<2>>]

\* The weight of row i as a function of the latitude grid alone.
GridWeight(i) == NDiv(CosRow(i), NDiv(CosSum, Num(nlat)))

\* C12: computing the weights and the weighted average leaves the inputs
\* unchanged: whatever cells have run, the latitude coordinate, gw, FLNT and
\* T of atm_control hold the values read from the file, and the weight
\* vector is a function of the latitude grid alone.
C12_InputsUnchanged ==
  /\ "atm_control" \in names => atm_control = open_dataset(server)
  /\ "weight_factor" \in names =>
       /\ weight_factor.dims = <<"lat">>
       /\ \A i \in 1..nlat : weight_factor.val[<<i>>] = GridWeight(i)

\* C12 witness: the weight cells and the averaging cell have run on a file
\* whose gw differs from the cosines, and FLNT is as read.
C12_Witness ==
  /\ Averaged /\ printed.var = "FLNT"
  /\ server.lat = <<0, 45>> /\ server.field.kind = "coded"
  /\ atm_control.FLNT = open_dataset(server).FLNT
  /\ weight_factor.val[<<2>>] = GridWeight(2)
  /\ weight_factor # weight_factor2

\* The rows of the grid are not equally spaced.
NonUniformGrid ==
  /\ nlat >= 3
  /\ \E i \in 1..(nlat - 2) :
       server.lat[i + 1] - server.lat[i] # server.lat[i + 2] - server.lat[i + 1]

\* C15: the weighting does not assume uniform latitude spacing: on a grid
\* of latitudes in [-90, 90] whose rows are not equally spaced, the weight
\* of a row is cos(latitude of the row) over the mean cosine of the grid,
\* the weights average to 1 and a constant field is preserved.
C15_SpacingNotAssumed ==
  ("weight_factor" \in names /\ InRange /\ NonUniformGrid) =>
    /\ \A i \in 1..nlat : weight_factor.val[<<i>>] = GridWeight(i)
    /\ Mean(weight_factor, {"lat"}) = Scalar(Num(1))
    /\ (Averaged /\ server.field.kind = "const") =>
         \A k \in DOMAIN printed.first.val :
           printed.first.val[k] = Num(server.field.par)

\* C15 witness: a constant field was averaged on the grid -90, -60, 0, 20,
\* 90, whose weights differ from row to row.
C15_Witness ==
  /\ Averaged /\ SpatialOnly /\ printed.var = "FLNT"
  /\ server.lat = UnevenGrid /\ NonUniformGrid
  /\ server.field.kind = "const"
  /\ weight_factor.val[<<2>>] # weight_factor.val[<<4>>]
  /\ printed.first.val[<<1>>] = Num(1)

\* The weighted (lat, lon) average of each month, then the plain mean of the
\* monthly values over time.
MonthlyThenTime(weight) ==
  Mean(WeightedMean(AveragedField, weight, {"lon", "lat"}), {"time"})

\* No cell of the weighted field is missing.
NoMissingWeighted(weight) ==
  LET prod == Mul(AveragedField, weight)
  IN  \A idx \in DOMAIN prod.val : ~IsNaN(prod.val[idx])

\* C17 as stated: averaging jointly over time, longitude and latitude gives
\* the same value as the weighted (lat, lon) average of each month followed
\* by the plain mean over time.
C17_Original ==
  (Averaged /\ ~SpatialOnly) =>
    /\ printed.first = MonthlyThenTime(weight_factor)
    /\ printed.second = MonthlyThenTime(weight_factor2)

\* C17 amended: the joint average over time, longitude and latitude equals
\* the mean over time of the monthly weighted averages when no cell of the
\* weighted field is missing; .mean skips NaN cells, so months with
\* different numbers of missing cells make the two orders differ.
C17_ReductionOrder ==
  (Averaged /\ ~SpatialOnly) =>
    /\ NoMissingWeighted(weight_factor) =>
         printed.first = MonthlyThenTime(weight_factor)
    /\ NoMissingWeighted(weight_factor2) =>
         printed.second = MonthlyThenTime(weight_factor2)

\* C17 witness: a field of two months with different monthly averages was
\* averaged over time, longitude and latitude.
C17_Witness ==
  /\ Averaged /\ ~SpatialOnly /\ printed.var = "FLNT"
  /\ server.field.kind = "coded" /\ server.ntime = 2
  /\ server.lat = <<0, 45>> /\ server.nlon = 2
  /\ LET monthly == WeightedMean(AveragedField, weight_factor, {"lon", "lat"})
     IN  monthly.val[<<1>>] # monthly.val[<<2>>]
  /\ printed.first = MonthlyThenTime(weight_factor)

\* The averaging lines have been applied to their output (and may have
\* raised).
Reapplied == again # NoReapply

\* C11 as stated: re-applying the averaging operation to its own reduced
\* output returns that output unchanged.
C11_Original ==
  Reapplied => (raised # "ValueError" /\ again.out = again.of)

\* C11 amended: re-applying the averaging lines to their own reduced output
\* returns it unchanged when the mean is taken over latitude alone, the only
\* axis the weights bring back, and the weights are finite; with the
\* dimensions of the notebook's call sites .mean raises ValueError, the
\* output having no longitude axis any more.
C11_IdempotentOverLat ==
  Reapplied =>
    /\ (again.dims = {"lat"} /\ CosSumNonZero) => again.out = again.of
    /\ again.dims # {"lat"} => again.out = None

\* C11 witness: a reduced output with one value per time and level, not all
\* equal, was averaged again over latitude and came back unchanged.
C11_Witness ==
  /\ Reapplied /\ again.dims = {"lat"} /\ raised = ""
  /\ server.lat = <<0, 45>> /\ server.field.kind = "coded"
  /\ again.of.dims = <<"time", "lev">>
  /\ again.of.val[<<1, 1>>] # again.of.val[<<2, 2>>]
  /\ again.out = again.of

\* Every cell of the averaged field is missing.
AllMissing == \A idx \in DOMAIN AveragedField.val : IsNaN(AveragedField.val[idx])

\* No call site of the averaging lines raises on a variable of the file.
NoCallRaises ==
  \A var \in AveragedVars, dims \in CallDims :
    /\ ~MeanRaises(Mul(atm_control[var], weight_factor), dims)
    /\ ~MeanRaises(Mul(atm_control[var], weight_factor2), dims)

\* C13: the abnormal outcomes of the averager are numeric values, never an
\* error: no averaging cell raises on a field of the file, a field whose
\* every cell is NaN averages to NaN, and so does a field on a grid with no
\* latitude row.
C13_NumericOutcomesOnly ==
  /\ raised = ""
  /\ {"atm_control", "weight_factor", "weight_factor2"} \subseteq names => NoCallRaises
  /\ (Averaged /\ (AllMissing \/ nlat = 0)) =>
       \A k \in DOMAIN printed.first.val :
         IsNaN(printed.first.val[k]) /\ IsNaN(printed.second.val[k])

\* C13 witness: a field with every cell NaN on two rows was averaged over
\* time, longitude and latitude and gave NaN.
C13_Witness ==
  /\ Averaged /\ ~SpatialOnly /\ printed.var = "FLNT"
  /\ server.field.kind = "nan" /\ server.lat = <<0, 45>>
  /\ raised = ""
  /\ IsNaN(printed.first.val[<<>>])

\* The empty latitude axis has been averaged over.
EmptyAxisAveraged ==
  Averaged /\ ~SpatialOnly /\ nlat = 0 /\ IsNaN(printed.first.val[<<>>])

\* The grid of month m (from zero) of the q-flux file: rows by columns.
MonthGrid(m) ==
  [dims |-> <<"lat", "lon">>, size |-> <<qserver.rows, qserver.cols>>,
   val |-> [k \in IdxSet(<<qserver.rows, qserver.cols>>) |->
              QdpValue(qserver, m + 1, k[1], k[2])]]

\* C14: selecting a month by index and by positional slicing give the same
\* data: for every month m in 0..11 what qdp.isel(time=m) displays and what
\* qdp[m,:,:] displays is the rows-by-columns grid of entry m of the time
\* axis, m = 0 being the first month.
C14_IselEqualsSlice ==
  /\ (shown.isel.done /\ shown.isel.month \in 0..(NMonths - 1)) =>
       shown.isel.grid = MonthGrid(shown.isel.month)
  /\ (shown.slice.done /\ shown.slice.month \in 0..(NMonths - 1)) =>
       shown.slice.grid = MonthGrid(shown.slice.month)
  /\ (shown.isel.done /\ shown.slice.done /\ shown.isel.month = shown.slice.month) =>
       shown.isel.grid = shown.slice.grid

\* C14 witness: both cells displayed month 0 of a file whose months differ,
\* and the two grids are the same.
C14_Witness ==
  /\ shown.isel.done /\ shown.slice.done
  /\ shown.isel.month = 0 /\ shown.slice.month = 0
  /\ qserver = [rows |-> 2, cols |-> 2, kind |-> "coded"]
  /\ shown.isel.grid = shown.slice.grid
  /\ shown.isel.grid.val[<<2, 1>>] = Num(121)

\* C16: for every sequence of slider moves of interact(sh, month=(0,11,1))
\* each call sh(month) receives an integer month in 0..11, so that
\* months[month] and qdp.isel(time=month) are in range (12 labels, 12 time
\* steps, no IndexError), the data contoured is that of the month, and the
\* text label, once drawn, is the name of the same month.
C16_SliderInRange ==
  "widget" \in DOMAIN figs =>
    LET w == figs.widget
    IN  /\ w.month \in 0..11
        /\ w.month + 1 \in DOMAIN MonthNames
        /\ w.month < som_input.qdp.size[1]
        /\ raised # "IndexError"
        /\ w.data = Neg(MonthGrid(w.month))
        /\ w.coast => w.text = MonthNames[w.month + 1]
        /\ "months" \in names => ShRaises(w.month) = ""

\* C16 witness: the slider was moved to its last position and the figure
\* shows the data of the twelfth month under the label Dec.
C16_Witness ==
  /\ "widget" \in DOMAIN figs
  /\ qserver.kind = "coded"
  /\ figs.widget.month = 11 /\ figs.widget.coast
  /\ figs.widget.text = "Dec"
  /\ figs.widget.data.val[<<1, 1>>] = Num(-1211)

\* The January plot cell has run to its end.
JanuaryDrawn == "ax4" \in DOMAIN figs /\ figs.ax4.coast

\* C20 as stated: the January plot cell touches only the figure it creates:
\* title, Longitude/Latitude axis labels, month text and coastline contour
\* are all on ax4, ax3 is as the annual mean cell left it, and the figure
\* carries the labelled elements of the figure sh(0) produces.
C20_Original ==
  JanuaryDrawn =>
    /\ figs.ax4.title = ShTitle
    /\ figs.ax4.xlabel = "Longitude"
    /\ figs.ax4.ylabel = "Latitude"
    /\ figs.ax4.text = "January"
    /\ figs.ax4.coast
    /\ figs.ax3 = AnnualAxes
    /\ "months" \in names =>
         /\ figs.ax4.title = ShAxes(0).title
         /\ figs.ax4.xlabel = ShAxes(0).xlabel
         /\ figs.ax4.ylabel = ShAxes(0).ylabel
         /\ (figs.ax4.text # "") = (ShAxes(0).text # "")
         /\ figs.ax4.coast = ShAxes(0).coast

HasT == "T" \in DOMAIN atm_control

HasTa == "Ta" \in DOMAIN atm_control

\* What the cells on the air temperature do in one step: the cells reading
\* atm_control['T'] succeed exactly when 'T' is there, the cell reading
\* atm_control.Ta exactly when 'Ta' is there, and the rename cell turns 'T'
\* into 'Ta' with the same data, or fails and changes nothing when 'T' is
\* not there.
TemperatureCellsStep ==
  /\ (\E k \in {35, 37} : ReadTCell(k)) => (raised' = "" <=> HasT)
  /\ PlotTaCell => (raised' = "" <=> HasTa)
  /\ (RenameCell /\ HasT) =>
       /\ raised' = ""
       /\ "Ta" \in DOMAIN atm_control' /\ "T" \notin DOMAIN atm_control'
       /\ atm_control'.Ta = atm_control.T
       /\ \A k \in DOMAIN atm_control \ {"T"} : atm_control'[k] = atm_control[k]
  /\ (RenameCell /\ ~HasT) => (raised' = "ValueError" /\ atm_control' = atm_control)
  /\ ("atm_control" \in names /\ HasT) => ~HasTa
  /\ ("atm_control" \in names /\ ~HasT) => HasTa

\* C19 as stated: the rename of 'T' to 'Ta' is a one-way change of
\* atm_control: before it 'T' is readable and 'Ta' absent, after it 'Ta' is
\* readable and 'T' absent for good, so that the cells reading 'T' succeed
\* only before the rename cell, those reading Ta only after it, and a
\* second run of the rename cell fails.
C19_Original ==
  [][/\ TemperatureCellsStep
     /\ HasTa => ("Ta" \in DOMAIN atm_control' /\ "T" \notin DOMAIN atm_control')]_vars

\* C19 amended: the same, the change lasting until the cell that opens
\* atm_control is run again: that cell binds atm_control to the Dataset as
\* it is in the file, where 'T' is readable and 'Ta' absent.
C19_RenameOneWay ==
  [][/\ TemperatureCellsStep
     /\ (HasTa /\ ~OpenAtmControl) =>
          ("Ta" \in DOMAIN atm_control' /\ "T" \notin DOMAIN atm_control')
     /\ OpenAtmControl =>
          ("T" \in DOMAIN atm_control' /\ "Ta" \notin DOMAIN atm_control')]_vars

\* C19 witness: the rename cell was run a second time on the renamed
\* Dataset and failed.
C19_Witness ==
  /\ "atm_control" \in names /\ HasTa /\ ~HasT
  /\ raised = "ValueError"
  /\ atm_control.Ta = open_dataset(server).T
  /\ server.lat = <<0, 45>>

\* The axes of the q-flux plots drawn so far.
QfluxAxes == DOMAIN figs \cap {"ax3", "ax4", "sh6", "widget"}

\* C18: when the code cells are run once each from top to bottom, every
\* name the next cell reads has been bound by an earlier cell, so that no
\* cell raises, and the lev in effect for every q-flux plot and for every
\* later call of sh is np.arange(-700, 750, 50), not the topography range
\* assigned earlier.
C18_TopToBottom ==
  /\ pc \in 1..NCells => Reads(pc) \subseteq names
  /\ raised = ""
  /\ pc \in 9..13 => lev = TopoLev
  /\ pc > 13 => lev = QfluxLev
  /\ \A a \in QfluxAxes : figs[a].levels = QfluxLev /\ figs[a].levels # TopoLev

\* C18 witness: every cell has run, the slider has then been moved to the
\* first month, and the figure under it is contoured at the q-flux levels.
C18_Witness ==
  /\ pc = NCells + 1 /\ raised = ""
  /\ {"datapath", "endstr", "topo", "som_input", "lev", "months", "sh",
      "atm_control", "cos", "deg2rad", "weight_factor", "weight_factor2"}
       \subseteq names
  /\ QfluxAxes = {"ax3", "ax4", "sh6", "widget"}
  /\ figs.widget.month = 0 /\ figs.widget.text = "Jan"
  /\ figs.widget.levels = QfluxLev

\* The cells above the annual mean plot leave the kernel as the q-flux
\* plots are started from.
BeforeAnnualPlot ==
  pc = 13 =>
    /\ names = NamesBeforeAnnualPlot
    /\ som_input = open_som_input(qserver)
    /\ lev = TopoLev /\ months = <<>> /\ figs = NoFigs

=============================================================================
